---- MODULE Spec2Model ----
(***************************************************************************)
(* Model of xrfit's parameter accessor (src/src/xrfit/params.py): the      *)
(* per-cell helpers _get, _assign and _set_bounds, and the array methods   *)
(* ParamsAccessor.get, assign, set_bounds and sort that map them over the  *)
(* cells of a DataArray of lmfit ModelResult objects.                      *)
(*                                                                         *)
(* Numbers are fixed point.  Parameter values are even integers and        *)
(* bound_ratio is counted in halves (bound_ratio 1.0 is 2, 0.5 is 1), so   *)
(* bound_ratio * abs(value) is the exact integer (ratio * |value|) \div 2. *)
(* A parameter name is the sequence of its characters, grouped in chunks   *)
(* ("p1_", "center"); str.endswith is a comparison of trailing chunks.     *)
(* np.inf is an integer larger than every finite number the model forms.   *)
(*                                                                         *)
(* What the libraries do is taken as follows.  lmfit's Parameter.set       *)
(* stores the attributes it is given (bounds before the value) and leaves  *)
(* the others; a fitted Parameter has min <= value <= max.  xarray's       *)
(* apply_ufunc(vectorize=True) calls the helper on the cells in order and  *)
(* raises when the rows of a new core dimension differ in length;          *)
(* .loc[label] = x writes every cell that carries the label.  Indexing a   *)
(* numpy row past its end raises IndexError.                               *)
(***************************************************************************)
EXTENDS Integers, Sequences, FiniteSets, TLC

\* ------------------------------------------------------------------ bounds

\* Number of cells of the (one-dimensional) Result Array.
NCells == 2

\* Number of accessor calls made on one array.
MaxSteps == 2

\* ---------------------------------------------------------------- constants

\* np.inf as passed to Parameter.set by _assign.
Inf == 1000

Cells == 1 .. NCells

\* One ModelResult per cell at construction; a cell holds a reference.
ObjIds == 1 .. NCells

VARIABLES
    heap,     \* ObjId -> the ModelResult's params: a sequence of Parameters
    arr,      \* self._obj: cell position -> ObjId held by the cell
    coords,   \* self._obj.coords of the one dimension: position -> label
    preHeap,  \* heap when the last call started
    preArr,   \* arr when the last call started
    last,     \* the last call: its name, arguments and outcome (err)
    ret,      \* what the last call returned
    steps     \* calls made so far

vars == <<heap, arr, coords, preHeap, preArr, last, ret, steps>>

\* ------------------------------------------------------------ number helpers

Abs(x) == IF x < 0 THEN -x ELSE x

\* A list comprehension builds its list once: the sequence with its elements
\* computed, not a rule recomputed at every use.
List(seq) == seq \o <<>>

\* bound_ratio * abs(value), bound_ratio counted in halves.
Scale(ratio, x) == (ratio * Abs(x)) \div 2

\* ------------------------------------------------------------ the fit results

CENTER == <<"center">>
SIGMA  == <<"sigma">>

\* Ordered parameter names of a two-peak fit, without and with widths.
Peaks == << <<"p1_", "center">>, <<"p2_", "center">> >>
PeaksW == << <<"p1_", "center">>, <<"p1_", "sigma">>,
             <<"p2_", "center">>, <<"p2_", "sigma">> >>

\* Which kind each cell holds: all Peaks, all PeaksW, or alternating (ragged).
Layouts == {"peaks", "peaksw", "ragged"}

SchemaOf(layout, c) ==
    CASE layout = "peaks"  -> Peaks
      [] layout = "peaksw" -> PeaksW
      [] OTHER             -> IF c % 2 = 1 THEN Peaks ELSE PeaksW

\* Fitted values, by parameter position; cell c uses the row rotated by c - 1.
ValueRows == { <<4, 2, -4, 0>>, <<0, 4, 2, 2>> }

Rotated(row, c, i) == row[((i + c - 2) % Len(row)) + 1]

\* Half-width of the bounds the fit was run with: unbounded, or value +/- 2.
Slacks == {Inf, 2}

\* Position of the parameter that was fitted with vary=False.
Frozen == Len(Peaks)

MkParam(name, v, slack, vary) ==
    [name  |-> name,
     value |-> v,
     min   |-> IF slack = Inf THEN -Inf ELSE v - slack,
     max   |-> IF slack = Inf THEN Inf ELSE v + slack,
     vary  |-> vary]

MkResult(layout, row, slack, c) ==
    LET names == SchemaOf(layout, c)
    IN  [i \in 1 .. Len(names) |->
            MkParam(names[i], Rotated(row, c, i), slack, i # Frozen)]

\* ------------------------------------------------------- the per-cell helpers

\* key.endswith(params_name)
endswith(key, suffix) ==
    /\ Len(suffix) <= Len(key)
    /\ SubSeq(key, Len(key) - Len(suffix) + 1, Len(key)) = suffix

\* Positions, in the mapping's order, of the keys that end with params_name:
\* the comprehension `for key in params if key.endswith(params_name)`.
RECURSIVE Matches(_, _, _)
Matches(params, params_name, i) ==
    IF i > Len(params) THEN <<>>
    ELSE (IF endswith(params[i].name, params_name) THEN <<i>> ELSE <<>>)
         \o Matches(params, params_name, i + 1)

\* getattr(params[key], params_attr)
getattr(param, params_attr) ==
    CASE params_attr = "value" -> param.value
      [] params_attr = "min"   -> param.min
      [] params_attr = "max"   -> param.max
      [] params_attr = "vary"  -> param.vary

\* _get collecting the matches last first.
_get_reversed(params, params_name, params_attr) ==
    LET pars == Matches(params, params_name, 1)
    IN  List([k \in 1 .. Len(pars) |->
                getattr(params[pars[Len(pars) + 1 - k]], params_attr)])

_get(params, params_name, params_attr) ==
    LET pars == Matches(params, params_name, 1)
    IN  List([k \in 1 .. Len(pars) |-> getattr(params[pars[k]], params_attr)])

\* Position in `pars` of parameter i, or 0.
RankIn(pars, i) ==
    IF \E k \in 1 .. Len(pars) : pars[k] = i
    THEN CHOOSE k \in 1 .. Len(pars) : pars[k] = i
    ELSE 0

\* _assign indexing the new values from the end (params_value_new[-1 - i]).
_assign_from_end(params, params_value_new, params_name) ==
    LET pars == Matches(params, params_name, 1)
        written == IF Len(params_value_new) < Len(pars)
                   THEN Len(params_value_new) ELSE Len(pars)
    IN  [params |->
            List([i \in 1 .. Len(params) |->
                    LET k == RankIn(pars, i)
                    IN  IF k >= 1 /\ k <= written
                        THEN [params[i] EXCEPT
                                !.value = params_value_new[Len(params_value_new) + 1 - k],
                                !.min = -Inf, !.max = Inf]
                        ELSE params[i]]),
         err |-> IF Len(params_value_new) < Len(pars)
                 THEN "IndexError" ELSE "ok"]

\* The loop of _assign.  params_value_new[i] raises IndexError once i passes
\* the end of the row; the parameters written before that stay written.  A row
\* longer than pars is never read past len(pars).
_assign(params, params_value_new, params_name) ==
    LET pars    == Matches(params, params_name, 1)
        written == IF Len(params_value_new) < Len(pars)
                   THEN Len(params_value_new) ELSE Len(pars)
    IN  [params |->
            List([i \in 1 .. Len(params) |->
                    LET k == RankIn(pars, i)
                    IN  IF k >= 1 /\ k <= written
                        THEN [params[i] EXCEPT !.value = params_value_new[k],
                                               !.min = -Inf, !.max = Inf]
                        ELSE params[i]]),
         err |-> IF Len(params_value_new) < Len(pars)
                 THEN "IndexError" ELSE "ok"]

\* _set_bounds as the rule "only tighten" would have it: a new bound is applied
\* only when it lies inside the current one.
BoundOne_TightenOnly(p, bound_ratio, bound_tol) ==
    IF ~p.vary THEN p
    ELSE
        LET near      == Abs(p.value) <= bound_tol
            param_min == IF near THEN -bound_tol
                         ELSE p.value - Scale(bound_ratio, p.value)
            param_max == IF near THEN bound_tol
                         ELSE p.value + Scale(bound_ratio, p.value)
            p1 == IF p.min <= param_min THEN [p EXCEPT !.min = param_min] ELSE p
        IN  IF p1.max >= param_max THEN [p1 EXCEPT !.max = param_max] ELSE p1

\* _set_bounds with the sign of the lower bound's offset slipped.
BoundOne_SignSlip(p, bound_ratio, bound_tol) ==
    IF ~p.vary THEN p
    ELSE
        LET near      == Abs(p.value) <= bound_tol
            param_min == IF near THEN -bound_tol
                         ELSE p.value + Scale(bound_ratio, p.value)
            param_max == IF near THEN bound_tol
                         ELSE p.value + Scale(bound_ratio, p.value)
            p1 == IF p.min <= p.value THEN [p EXCEPT !.min = param_min] ELSE p
        IN  IF p1.max >= p1.value THEN [p1 EXCEPT !.max = param_max] ELSE p1

\* _set_bounds with `<` for `<=` in the near-zero test.
BoundOne_StrictTol(p, bound_ratio, bound_tol) ==
    IF ~p.vary THEN p
    ELSE
        LET near      == Abs(p.value) < bound_tol
            param_min == IF near THEN -bound_tol
                         ELSE p.value - Scale(bound_ratio, p.value)
            param_max == IF near THEN bound_tol
                         ELSE p.value + Scale(bound_ratio, p.value)
            p1 == IF p.min <= p.value THEN [p EXCEPT !.min = param_min] ELSE p
        IN  IF p1.max >= p1.value THEN [p1 EXCEPT !.max = param_max] ELSE p1

\* The body of _set_bounds for one Parameter.
BoundOne(p, bound_ratio, bound_tol) ==
    IF ~p.vary THEN p
    ELSE
        LET near      == Abs(p.value) <= bound_tol
            param_min == IF near THEN -bound_tol
                         ELSE p.value - Scale(bound_ratio, p.value)
            param_max == IF near THEN bound_tol
                         ELSE p.value + Scale(bound_ratio, p.value)
            p1 == IF p.min <= p.value THEN [p EXCEPT !.min = param_min] ELSE p
        IN  IF p1.max >= p1.value THEN [p1 EXCEPT !.max = param_max] ELSE p1

_set_bounds(params, bound_ratio, bound_tol) ==
    List([i \in 1 .. Len(params) |-> BoundOne(params[i], bound_ratio, bound_tol)])

\* argsort in descending order.
argsort_descending(row) ==
    LET Precedes(j, k) == row[j] > row[k] \/ (row[j] = row[k] /\ j < k)
        Rank(k) == Cardinality({j \in 1 .. Len(row) : Precedes(j, k)}) + 1
    IN  List([r \in 1 .. Len(row) |-> CHOOSE k \in 1 .. Len(row) : Rank(k) = r])

\* ndarray.argsort along the last axis, 1-based: the k-th entry is the position
\* of the k-th smallest value, equal values in their original order (numpy
\* sorts short rows by insertion).
argsort(row) ==
    LET Precedes(j, k) == row[j] < row[k] \/ (row[j] = row[k] /\ j < k)
        Rank(k) == Cardinality({j \in 1 .. Len(row) : Precedes(j, k)}) + 1
    IN  List([r \in 1 .. Len(row) |-> CHOOSE k \in 1 .. Len(row) : Rank(k) = r])

\* ------------------------------------------------------ the array-level calls

\* apply_ufunc(_get, ...): one row per cell.
GetArr(h, a, params_name, params_attr) ==
    List([c \in Cells |-> _get(h[a[c]], params_name, params_attr)])

\* The new core dimension params_dim needs one length for all cells.
Ragged(rows) == \E c, d \in Cells : Len(rows[c]) # Len(rows[d])

\* apply_ufunc(_assign, ...): the cells in order, stopping at the first error.
RECURSIVE AssignCells(_, _, _, _, _)
AssignCells(h, a, new, params_name, c) ==
    IF c > NCells THEN [heap |-> h, err |-> "ok"]
    ELSE LET r  == _assign(h[a[c]], new[c], params_name)
             h2 == [h EXCEPT ![a[c]] = r.params]
         IN  IF r.err # "ok" THEN [heap |-> h2, err |-> r.err]
             ELSE AssignCells(h2, a, new, params_name, c + 1)

\* apply_ufunc(_set_bounds, ...): the cells in order.
RECURSIVE BoundCells(_, _, _, _, _)
BoundCells(h, a, bound_ratio, bound_tol, c) ==
    IF c > NCells THEN h
    ELSE BoundCells([h EXCEPT ![a[c]] = _set_bounds(h[a[c]], bound_ratio, bound_tol)],
                    a, bound_ratio, bound_tol, c + 1)

\* isel putting each row in its own ascending order, whatever the indices.
isel_own_order(rows, sorted_indices) ==
    List([c \in Cells |->
            List([j \in 1 .. Len(sorted_indices[c]) |-> rows[c][argsort(rows[c])[j]]])])

\* param.isel(params_dim=sorted_indices): pointwise along the cells.
isel(rows, sorted_indices) ==
    List([c \in Cells |->
            List([j \in 1 .. Len(sorted_indices[c]) |-> rows[c][sorted_indices[c][j]]])])

\* An index of sorted_indices beyond the end of the row it selects from.
OutOfRange(rows, sorted_indices) ==
    \E c \in Cells : \E j \in 1 .. Len(sorted_indices[c]) :
        sorted_indices[c][j] > Len(rows[c])

\* The loop of sort over params_name, from entry k on.
RECURSIVE SortLoop(_, _, _, _, _)
SortLoop(h, a, sorted_indices, params_name, k) ==
    IF k > Len(params_name) THEN [heap |-> h, err |-> "ok"]
    ELSE LET param == GetArr(h, a, params_name[k], "value")
         IN  IF Ragged(param) THEN [heap |-> h, err |-> "ValueError"]
             ELSE IF OutOfRange(param, sorted_indices)
                  THEN [heap |-> h, err |-> "IndexError"]
             ELSE LET r == AssignCells(h, a, isel(param, sorted_indices),
                                       params_name[k], 1)
                  IN  IF r.err # "ok" THEN r
                      ELSE SortLoop(r.heap, a, sorted_indices, params_name, k + 1)

\* ------------------------------------------------------------ the arguments

ALL == <<>>

\* name suffixes passed as params_name / target_param_name
Suffixes == {CENTER, SIGMA}

Attrs == {"value", "min", "vary"}

\* bound_ratio in halves (0.5 and the default 1.0), and bound_tol
BoundRatios == {1, 2}
BoundTols == {2, 4}

\* Rows of new values, up to one longer than any list of matches.
Ramp(n) == List([i \in 1 .. n |-> 2 * (i - 1)])
Reverse(row) == List([i \in 1 .. Len(row) |-> row[Len(row) + 1 - i]])
NewRows == { Ramp(n) : n \in 1 .. (Len(Peaks) + 1) }

\* A dense array of new values: one row for all cells, or the row reversed in
\* every second cell.
NewValues ==
    { List([c \in Cells |-> IF flip /\ c % 2 = 0 THEN Reverse(row) ELSE row]) :
        row \in NewRows, flip \in BOOLEAN }

\* The params_name lists given to sort; `given = FALSE` is params_name=None.
SortArgs ==
    { [given |-> FALSE, list |-> <<>>] } \cup
    { [given |-> TRUE, list |-> l] :
        l \in { <<CENTER, SIGMA>>, <<CENTER, CENTER>>, <<CENTER, CENTER, SIGMA>>,
                <<CENTER, ALL>> } }

\* Coordinate labels of the dimension; labels may repeat.
CoordChoices == { co \in [Cells -> Cells] : co[1] = 1 }

\* ------------------------------------------------------------------- states

InitOf(layouts, coordChoices) ==
    \E layout \in layouts, row \in ValueRows, slack \in Slacks, co \in coordChoices :
        /\ heap = [o \in ObjIds |-> MkResult(layout, row, slack, o)]
        /\ arr = [c \in Cells |-> c]
        /\ coords = co
        /\ preHeap = heap
        /\ preArr = arr
        /\ last = [op |-> "init", err |-> "ok"]
        /\ ret = arr
        /\ steps = 0

Init == InitOf(Layouts, CoordChoices)

\* Every call starts by remembering the state it found.
Call ==
    /\ steps < MaxSteps
    /\ steps' = steps + 1
    /\ preHeap' = heap
    /\ preArr' = arr
    /\ UNCHANGED coords

\* ParamsAccessor.set_bounds(bound_ratio, bound_tol), index_dict=None
SetBounds ==
    \E bound_ratio \in BoundRatios, bound_tol \in BoundTols :
        /\ Call
        /\ heap' = BoundCells(heap, arr, bound_ratio, bound_tol, 1)
        /\ arr' = arr
        /\ ret' = arr
        /\ last' = [op |-> "set_bounds", err |-> "ok", index |-> 0,
                    bound_ratio |-> bound_ratio, bound_tol |-> bound_tol]

\* ParamsAccessor.set_bounds(bound_ratio, bound_tol, index_dict={dim: index}):
\* the cell is read by position and written back through its coordinate label.
SetBoundsIndex ==
    \E bound_ratio \in BoundRatios, bound_tol \in BoundTols, index \in Cells :
        LET item  == arr[index]
            label == coords[index]
        IN  /\ Call
            /\ heap' = [heap EXCEPT ![item] = _set_bounds(heap[item], bound_ratio, bound_tol)]
            /\ arr' = [c \in Cells |-> IF coords[c] = label THEN item ELSE arr[c]]
            /\ ret' = arr'
            /\ last' = [op |-> "set_bounds", err |-> "ok", index |-> index,
                        bound_ratio |-> bound_ratio, bound_tol |-> bound_tol]

\* ParamsAccessor.get(params_name, params_attr)
Get ==
    \E params_name \in Suffixes, params_attr \in Attrs :
        LET rows == GetArr(heap, arr, params_name, params_attr)
        IN  /\ Call
            /\ UNCHANGED <<heap, arr>>
            /\ ret' = IF Ragged(rows) THEN <<>> ELSE rows
            /\ last' = [op |-> "get", err |-> IF Ragged(rows) THEN "ValueError" ELSE "ok",
                        params_name |-> params_name, params_attr |-> params_attr]

\* What the caller can pass as params_value_new: a fresh array, or the array
\* the preceding get(..., "value") returned.
Readback ==
    IF last.op = "get" /\ last.err = "ok" /\ last.params_attr = "value"
    THEN {ret} ELSE {}

\* ParamsAccessor.assign(params_value_new, params_name)
Assign ==
    \E params_name \in Suffixes, params_value_new \in NewValues \cup Readback :
        LET r == AssignCells(heap, arr, params_value_new, params_name, 1)
        IN  /\ Call
            /\ heap' = r.heap
            /\ arr' = arr
            /\ ret' = IF r.err = "ok" THEN arr ELSE <<>>
            /\ last' = [op |-> "assign", err |-> r.err, params_name |-> params_name,
                        params_value_new |-> params_value_new]

\* ParamsAccessor.sort(target_param_name, params_name)
Sort ==
    \E target_param_name \in {CENTER, SIGMA}, arg \in SortArgs :
        LET params_name     == IF arg.given THEN arg.list ELSE <<CENTER>>
            param_to_sortby == GetArr(heap, arr, target_param_name, "value")
            sorted_indices  == List([c \in Cells |-> argsort(param_to_sortby[c])])
            r == IF Ragged(param_to_sortby) THEN [heap |-> heap, err |-> "ValueError"]
                 ELSE SortLoop(heap, arr, sorted_indices, params_name, 1)
        IN  /\ Call
            /\ heap' = r.heap
            /\ arr' = arr
            /\ ret' = IF r.err = "ok" THEN arr ELSE <<>>
            /\ last' = [op |-> "sort", err |-> r.err,
                        target_param_name |-> target_param_name,
                        params_name |-> params_name]

Next == SetBounds \/ SetBoundsIndex \/ Get \/ Assign \/ Sort

Spec == Init /\ [][Next]_vars

\* The bounds calls alone, on arrays of every labelling.
InitBounds == InitOf(Layouts, CoordChoices)
NextBounds == SetBounds \/ SetBoundsIndex
SpecBounds == InitBounds /\ [][NextBounds]_vars

\* The read and write calls alone.
InitAccess == InitOf(Layouts, {[c \in Cells |-> c]})
NextAccess == Get \/ Assign \/ Sort
SpecAccess == InitAccess /\ [][NextAccess]_vars

\* ------------------------------------------------------------- properties

Returned == last.err = "ok"

\* The cells the last set_bounds call worked on.
Processed == IF last.index = 0 THEN Cells ELSE {last.index}

\* The parameters of cell c's object before and after the last call.
Before(c) == preHeap[preArr[c]]
After(c) == heap[arr[c]]

\* Parameter i of cell c ends with the suffix; its place among those that do.
Hit(c, suffix, i) == endswith(Before(c)[i].name, suffix)
HitCount(c, suffix) ==
    Cardinality({i \in 1 .. Len(Before(c)) : Hit(c, suffix, i)})
Place(c, suffix, i) == Cardinality({j \in 1 .. i : Hit(c, suffix, j)})

NonDecreasing(row) == \A j \in 1 .. Len(row) - 1 : row[j] <= row[j + 1]

Times(row, v) == Cardinality({j \in 1 .. Len(row) : row[j] = v})

Rearranged(row, other) ==
    /\ Len(row) = Len(other)
    /\ \A j \in 1 .. Len(row) : Times(row, row[j]) = Times(other, row[j])

\* The values read under a suffix before and after the last call.
ValuesBefore(suffix) == GetArr(preHeap, preArr, suffix, "value")
ValuesAfter(suffix) == GetArr(heap, arr, suffix, "value")

C2_ValueWithinBounds ==
    last.op = "set_bounds" =>
        \A c \in Processed : \A i \in 1 .. Len(After(c)) :
            After(c)[i].vary =>
                /\ After(c)[i].min <= After(c)[i].value
                /\ After(c)[i].value <= After(c)[i].max
                /\ After(c)[i].value = Before(c)[i].value

\* C2 witness: set_bounds gave finite bounds, not centred at zero width, to a
\* varying parameter that had none.
C2_BoundsSet ==
    /\ last.op = "set_bounds"
    /\ \E c \in Processed : \E i \in 1 .. Len(After(c)) :
        /\ After(c)[i].vary
        /\ Before(c)[i].min = -Inf /\ Before(c)[i].max = Inf
        /\ After(c)[i].min > -Inf /\ After(c)[i].max < Inf
        /\ After(c)[i].min < After(c)[i].max

\* C3: a varying parameter with |value| <= bound_tol leaves set_bounds with
\* min = -bound_tol and max = +bound_tol, whatever bound_ratio and its bounds
\* before.
C3_NearZeroWindow ==
    last.op = "set_bounds" =>
        \A c \in Processed : \A i \in 1 .. Len(After(c)) :
            (Before(c)[i].vary /\ Abs(Before(c)[i].value) <= last.bound_tol) =>
                /\ After(c)[i].min = -last.bound_tol
                /\ After(c)[i].max = last.bound_tol

\* C3 witness: a varying, nonzero value strictly inside the tolerance (0.0005
\* against 1e-3), with finite bounds before, now has the window.
C3_SmallValueWindowed ==
    /\ last.op = "set_bounds"
    /\ \E c \in Processed : \E i \in 1 .. Len(After(c)) :
        /\ Before(c)[i].vary
        /\ Before(c)[i].value # 0
        /\ Abs(Before(c)[i].value) < last.bound_tol
        /\ Before(c)[i].min > -Inf
        /\ Before(c)[i].min # -last.bound_tol
        /\ After(c)[i].min = -last.bound_tol
        /\ After(c)[i].max = last.bound_tol

\* C4: get returns for each cell the chosen attribute of the parameters whose
\* names end with the suffix, in the mapping's order; the row is as long as
\* there are such names; no parameter of any cell changes.
C4_GetMatchesInOrder ==
    (last.op = "get" /\ Returned) =>
        /\ heap = preHeap
        /\ arr = preArr
        /\ \A c \in Cells :
            /\ Len(ret[c]) = HitCount(c, last.params_name)
            /\ \A i \in 1 .. Len(Before(c)) :
                Hit(c, last.params_name, i) =>
                    ret[c][Place(c, last.params_name, i)]
                        = getattr(Before(c)[i], last.params_attr)

\* C4 witness: a get that picked two differing entries out of a longer mapping.
C4_PickedSome ==
    /\ last.op = "get" /\ Returned
    /\ \E c \in Cells :
        /\ Len(ret[c]) = 2
        /\ Len(Before(c)) > 2
        /\ ret[c][1] # ret[c][2]

\* C5: writing back what get just read, assign(get(arr, suffix), suffix),
\* leaves get(arr, suffix, "value") as it was in every cell.
C5_RoundTrip ==
    (/\ last.op = "assign" /\ Returned
     /\ last.params_value_new = ValuesBefore(last.params_name)) =>
        ValuesAfter(last.params_name) = ValuesBefore(last.params_name)

\* C5 witness: a write-back of rows of two differing values, which replaced
\* the parameters' bounds.
C5_WroteBack ==
    /\ last.op = "assign" /\ Returned
    /\ last.params_value_new = ValuesBefore(last.params_name)
    /\ heap # preHeap
    /\ \E c \in Cells :
        /\ Len(last.params_value_new[c]) = 2
        /\ last.params_value_new[c][1] # last.params_value_new[c][2]

\* The listed entry that is the target, and the other entries that reach a
\* parameter the target matches.
TargetEntries ==
    {k \in 1 .. Len(last.params_name) : last.params_name[k] = last.target_param_name}
Overlapping(suffix, other) ==
    \E c \in Cells : \E i \in 1 .. Len(Before(c)) :
        Hit(c, suffix, i) /\ Hit(c, other, i)

\* C6 as stated: for any params_name list that contains the target, after sort
\* returns the target's values are non-decreasing in every cell and a
\* rearrangement of the cell's values before.
C6_SortedForAnyList ==
    (last.op = "sort" /\ Returned /\ TargetEntries # {}) =>
        \A c \in Cells :
            /\ NonDecreasing(ValuesAfter(last.target_param_name)[c])
            /\ Rearranged(ValuesAfter(last.target_param_name)[c],
                          ValuesBefore(last.target_param_name)[c])

\* C6 amended: the same, for a params_name list that holds the target exactly
\* once and no other entry matching a parameter the target matches.
C6_SortedWhenListedOnce ==
    (/\ last.op = "sort" /\ Returned
     /\ Cardinality(TargetEntries) = 1
     /\ \A k \in 1 .. Len(last.params_name) :
            k \notin TargetEntries =>
                ~Overlapping(last.target_param_name, last.params_name[k])) =>
        \A c \in Cells :
            /\ NonDecreasing(ValuesAfter(last.target_param_name)[c])
            /\ Rearranged(ValuesAfter(last.target_param_name)[c],
                          ValuesBefore(last.target_param_name)[c])

\* C6 witness: a sort by a target listed once that put a descending pair
\* ([5.0, 2.0]) in ascending order.
C6_Reordered ==
    /\ last.op = "sort" /\ Returned
    /\ Cardinality(TargetEntries) = 1
    /\ \A k \in 1 .. Len(last.params_name) :
            k \notin TargetEntries =>
                ~Overlapping(last.target_param_name, last.params_name[k])
    /\ \E c \in Cells :
        /\ ~NonDecreasing(ValuesBefore(last.target_param_name)[c])
        /\ NonDecreasing(ValuesAfter(last.target_param_name)[c])

\* One permutation p takes every listed parameter's row before the call to its
\* row after: the value at position p[j] before is at position j after.
MovedAlike(c) ==
    LET n == HitCount(c, last.params_name[1])
    IN  \E p \in Permutations(1 .. n) :
            \A k \in 1 .. Len(last.params_name) :
                /\ Len(ValuesAfter(last.params_name[k])[c]) = n
                /\ Len(ValuesBefore(last.params_name[k])[c]) = n
                /\ \A j \in 1 .. n :
                    ValuesAfter(last.params_name[k])[c][j]
                        = ValuesBefore(last.params_name[k])[c][p[j]]

\* No two entries of the params_name list match a common parameter (so no
\* suffix is listed twice either).
EntriesDisjoint ==
    \A k, m \in 1 .. Len(last.params_name) :
        k # m => ~Overlapping(last.params_name[k], last.params_name[m])

\* C7 as stated: for any params_name list and any cell, sort moves the values
\* of every listed parameter by one and the same permutation.
C7_MovedAlikeForAnyList ==
    (last.op = "sort" /\ Returned) => \A c \in Cells : MovedAlike(c)

\* C7 amended: the same, for a params_name list no two entries of which match
\* a common parameter.
C7_MovedAlikeWhenDisjoint ==
    (last.op = "sort" /\ Returned /\ EntriesDisjoint) =>
        \A c \in Cells : MovedAlike(c)

\* C7 witness: a sort over two disjoint entries that changed the rows of both
\* in some cell.
C7_TwoReordered ==
    /\ last.op = "sort" /\ Returned /\ EntriesDisjoint
    /\ Len(last.params_name) = 2
    /\ \E c \in Cells :
        \A k \in 1 .. 2 :
            /\ Len(ValuesBefore(last.params_name[k])[c]) = 2
            /\ ValuesAfter(last.params_name[k])[c]
                   # ValuesBefore(last.params_name[k])[c]

\* C8: assign ends in an error whenever the row of new values of some cell is
\* shorter or longer than the cell's list of matching names.
C8_MismatchRejected ==
    (/\ last.op = "assign"
     /\ \E c \in Cells :
            Len(last.params_value_new[c]) # HitCount(c, last.params_name)) =>
        ~Returned

\* C9: set_bounds with an index selector leaves every cell holding the object
\* it held, and every cell but the selected one with its parameters unchanged.
C9_OneCellUpdated ==
    (last.op = "set_bounds" /\ last.index # 0) =>
        /\ arr = preArr
        /\ \A c \in Cells : c # last.index => After(c) = Before(c)

\* C10: assign gives the i-th parameter ending with the suffix the value
\* new_values[i] and bounds -inf, +inf, keeps its vary flag, leaves every
\* other parameter as it was, and leaves each cell holding its object.
C10_AssignPositional ==
    (last.op = "assign" /\ Returned) =>
        /\ arr = preArr
        /\ ret = preArr
        /\ \A c \in Cells : \A i \in 1 .. Len(Before(c)) :
            IF Hit(c, last.params_name, i)
            THEN After(c)[i] =
                    [Before(c)[i] EXCEPT
                        !.value = last.params_value_new[c][Place(c, last.params_name, i)],
                        !.min = -Inf, !.max = Inf]
            ELSE After(c)[i] = Before(c)[i]

====
